---- MODULE Spec2Model ----
(***************************************************************************)
(* State-machine model of the rocket game's core: the system-wide scene    *)
(* (class Game, second definition in src/unnamed/part_000) and the         *)
(* single-planet sub-scene (class PlanetScene, src/src/scenes/             *)
(* PlanetScene.js and its later revision src/unnamed/part_002), and the    *)
(* gravity of class Physics (src/unnamed/part_003) as Game.update sums it. *)
(*                                                                         *)
(* Positions are kept as altitudes above the two bodies of the model       *)
(* (Earth and one other body), quantised to a grid of GridStep distance    *)
(* units; a pair of altitudes is a position of the plane iff the triangle  *)
(* inequality holds with the bodies' centre distance.  Speeds are kept in  *)
(* tenths of a unit, drawn from a few representative levels.               *)
(***************************************************************************)
EXTENDS Integers, Sequences, FiniteSets, TLC

(* ------------------------------ bounds --------------------------------- *)
GridStep == 150
MaxCells == 4
MaxFuel == 1
MaxSceneTimers == 2
MaxCameraUpdates == 2

(* ------------------------- catalogue and constants --------------------- *)
EarthRadius == 100
PlanetRadius == 50
\* centre distance Earth - other body: the surfaces are three cells apart
PlanetDistance == EarthRadius + 3 * GridStep + PlanetRadius
EarthDifficulty == 1
PlanetDifficulty == 2
planetaryProximityThreshold == 300
ContactAltitude == 5
MaxLandingSpeed10 == 50

Earth == "Earth"
Planet == "Moon"
Bodies == {Earth, Planet}

\* representative speeds, in tenths: 0 (at rest), 0.3 and 20.0
SpeedLevels == <<0, 3, 200>>

Phases == {"launch", "space", "landing", "gameOver"}

\* representative altitudes above the enlarged sub-scene body
SceneAltLevels == <<2, 20, 40, 100, 800, 820, 1120, 1200, 1700, 2500>>
\* index in SceneAltLevels of the altitude of the approach pose
ApproachLevel == 6
\* PlanetScene.exitThreshold
exitThreshold == 1120

\* representative sub-scene speeds, in tenths: 0, 0.5, 1, 3, 5, 8 and 12
SceneSpeedLevels == <<0, 5, 10, 30, 50, 80, 120>>

ScenePhases == {"approaching", "landing", "landed", "launching"}

VARIABLES
    gameState,       \* Game.gameState
    viewMode,        \* Game.viewMode
    score,           \* Game.score
    planetsVisited,  \* Game.planetsVisited
    visitedPlanets,  \* Game.visitedPlanets
    earthCells,      \* rocket altitude above Earth, in grid cells
    planetCells,     \* rocket altitude above the other body, in grid cells
    speedLevel,      \* index into SpeedLevels of rocket.getSpeed()
    fuel,            \* rocket.fuel
    hasLanded,       \* per body: the current contact episode is resolved
    respawnTimers,   \* pending setTimeout callbacks of onLandingSuccess
    last,            \* the operation that produced this state
    phaseLog,        \* phases gameState went through in that operation
    events,          \* handlers invoked in that operation, in order
    gearDeployed,    \* the rocket's landing gear is deployed
    cameraSaw,       \* view mode and phase updateCamera read last
    sceneState,      \* PlanetScene.gameState
    sceneAlt,        \* index into SceneAltLevels of the craft's altitude
    sceneSpeed,      \* index into SceneSpeedLevels of rocket.getSpeed()
    sceneFuel,       \* the sub-scene rocket's fuel
    sceneHasLanded,  \* the sub-scene planet's contact episode is resolved
    sceneTimers,     \* pending setTimeout callbacks of the sub-scene
    sceneLast,       \* the sub-scene operation that produced this state
    scenePlanet,     \* PlanetScene.planetData: the body the scene shows
    sceneGear,       \* the sub-scene rocket's landing gear is deployed
    sceneLeaving,    \* what isRocketLeavingPlanet() returned last
    sceneEvents,     \* failures PlanetScene.onGameOver got in the last tick
    sceneOverText,   \* text of the game-over overlay, "none" while hidden
    scenePhaseBefore, \* the sub-scene's phase before its last operation
    gravPos,         \* rocket.position when the gravity of a tick is summed
    gravRocketMass,  \* rocket.mass
    gravMass,        \* per body: planet.mass
    gravPlanets,     \* Game.planets: the bodies other than Earth, in order
    gravityOf,       \* per body: what applyGravity(rocket, body) returned
    forceOf,         \* per body: what calculateGravityForce returned in it
    totalGravity,    \* the vector handed to rocket.update
    gravLast,        \* the gravity operation that produced this state
    flScene,         \* the scene that owns the craft: "game" or "planet"
    flMovement,      \* inputHandler.getMovementInput() of the last tick
    flHostDelta,     \* clock.getDelta() of the last tick, in ms
    flDeltaTime,     \* deltaTime the last tick worked with, in ms
    flFuel,          \* rocket.fuel
    flSpeed,         \* index into FlightSpeedLevels of rocket.getSpeed()
    flRcsSpeed,      \* the same when the tick reached its RCS block
    flRcsFuel,       \* rocket.fuel when the tick reached its RCS block
    flRcsSpeedAfter, \* speed index right after the RCS block
    flRcsApplied,    \* the tick called rocket.applyRCSThrust
    flAngularChange, \* what the tick added to rocket.angularVelocity
    flLast,          \* the flight operation that produced this state
    camViewMode,     \* Game.viewMode when updateCamera ran
    camPhase,        \* Game.gameState when updateCamera ran
    camRocketPos,    \* rocket.position, in tenths
    camQuaternion,   \* rocket.mesh.quaternion
    camSpeed10,      \* rocket.getSpeed(), in tenths
    camDesired,      \* desiredPosition of updateCamera, or that it threw
    camLast,         \* the camera operation that produced this state
    dragAltitude,    \* argument of the last calculateAtmosphericDrag call
    dragCoefficient, \* what that call returned, as DragScale
    egRadius,        \* planet.radius at the last applyEnhancedGravity
    egAltitude,      \* planet.getAltitude(rocket position) at that call
    egVelocity,      \* rocket.velocity at that call
    egResult,        \* what that call did
    dragLast,        \* the operation that produced this state
    orAltitudes,     \* getAltitude of each body at updateRocketOrientation
    orSpeed10,       \* rocket.getSpeed() at that call, in tenths
    orResult,        \* what Game.updateRocketOrientation did
    orSceneAltitude, \* planet.getAltitude in the sub-scene's call
    orSceneSpeed10,  \* rocket.getSpeed() in the sub-scene's call, in tenths
    orSceneSlerp,    \* whether the sub-scene's call turned the craft
    orLast,          \* the scene whose updateRocketOrientation ran last
    lpViewMode,      \* Game.viewMode
    lpLerpSpeed,     \* Game.cameraLerpSpeed, in hundredths
    lpPosition,      \* Game.cameraPosition, times 100^lpUpdates
    lpTarget,        \* Game.cameraTarget, times 100^lpUpdates
    lpUpdates,       \* number of interpolations since the constructor
    lpDesired,       \* desired position, target and factor of the last one
    lpLast,          \* how the last tick of the camera ended
    poName,          \* planet.name of the scene the craft is handed to
    poRadius,        \* planet.radius of that scene
    poFuel,          \* rocket.fuel after the transfer
    poGear,          \* landing gear deployed
    poState,         \* PlanetScene.gameState
    poAltitude,      \* planet.getAltitude(rocket position)
    poLeaving,       \* last answer of isRocketLeavingPlanet()
    poLast           \* the operation that produced this state

gameVars == <<gameState, viewMode, score, planetsVisited, visitedPlanets,
              earthCells, planetCells, speedLevel, fuel, hasLanded,
              respawnTimers, last, phaseLog, events, gearDeployed, cameraSaw>>

sceneVars == <<sceneState, sceneAlt, sceneSpeed, sceneFuel, sceneHasLanded,
               sceneTimers, sceneLast, scenePlanet, sceneGear, sceneLeaving,
               sceneEvents, sceneOverText, scenePhaseBefore>>

gravVars == <<gravPos, gravRocketMass, gravMass, gravPlanets, gravityOf,
              forceOf, totalGravity, gravLast>>

flightVars == <<flScene, flMovement, flHostDelta, flDeltaTime, flFuel, flSpeed,
                flRcsSpeed, flRcsFuel, flRcsSpeedAfter, flRcsApplied,
                flAngularChange, flLast>>

cameraVars == <<camViewMode, camPhase, camRocketPos, camQuaternion, camSpeed10,
                camDesired, camLast>>

dragVars == <<dragAltitude, dragCoefficient, egRadius, egAltitude, egVelocity,
              egResult, dragLast>>

orientVars == <<orAltitudes, orSpeed10, orResult, orSceneAltitude,
                orSceneSpeed10, orSceneSlerp, orLast>>

lerpVars == <<lpViewMode, lpLerpSpeed, lpPosition, lpTarget, lpUpdates,
              lpDesired, lpLast>>

poseVars == <<poName, poRadius, poFuel, poGear, poState, poAltitude,
              poLeaving, poLast>>

vars == <<gameVars, sceneVars, gravVars, flightVars, cameraVars, dragVars,
          orientVars, lerpVars, poseVars>>

\* what each part of the model leaves alone
notGame ==
    <<sceneVars, gravVars, flightVars, cameraVars,
      dragVars, orientVars, lerpVars, poseVars>>
notScene ==
    <<gameVars, gravVars, flightVars, cameraVars,
      dragVars, orientVars, lerpVars, poseVars>>
notGravity ==
    <<gameVars, sceneVars, flightVars, cameraVars,
      dragVars, orientVars, lerpVars, poseVars>>
notFlight ==
    <<gameVars, sceneVars, gravVars, cameraVars,
      dragVars, orientVars, lerpVars, poseVars>>
notCamera ==
    <<gameVars, sceneVars, gravVars, flightVars,
      dragVars, orientVars, lerpVars, poseVars>>
notDrag ==
    <<gameVars, sceneVars, gravVars, flightVars,
      cameraVars, orientVars, lerpVars, poseVars>>
notOrient ==
    <<gameVars, sceneVars, gravVars, flightVars,
      cameraVars, dragVars, lerpVars, poseVars>>
notLerp ==
    <<gameVars, sceneVars, gravVars, flightVars,
      cameraVars, dragVars, orientVars, poseVars>>
notPose ==
    <<gameVars, sceneVars, gravVars, flightVars,
      cameraVars, dragVars, orientVars, lerpVars>>

(* ------------------------------ geometry ------------------------------- *)
\* Planet.getAltitude: distance to the centre minus the radius.  A pair of
\* altitudes is a point of the plane iff the three centre distances satisfy
\* the triangle inequality.
Feasible(e, p) ==
    LET dE == e * GridStep + EarthRadius
        dP == p * GridStep + PlanetRadius
    IN  /\ dE + dP >= PlanetDistance
        /\ dE - dP <= PlanetDistance
        /\ dP - dE <= PlanetDistance

earthAltitude == earthCells * GridStep
planetAltitude == planetCells * GridStep
getSpeed10 == SpeedLevels[speedLevel]

Min2(a, b) == IF a < b THEN a ELSE b

\* Planet.orientRocketOnSurface(rocket) for Earth: the launch pose, on the
\* surface of Earth at the point nearest to the other body.
HomePlanetCells ==
    CHOOSE p \in 0..MaxCells :
        Feasible(0, p) /\ \A q \in 0..(p - 1) : ~Feasible(0, q)

(* ------------------------------- rocket -------------------------------- *)
\* Rocket.applyMainThrust: burns fuel at a fixed rate, never below zero.
applyMainThrust(f) == IF f > 0 THEN f - 1 ELSE 0

\* Rocket.update: one integration step.  The speed moves to a neighbouring
\* level; the position moves by at most one cell per body, and only when the
\* new speed is not zero (position is integrated from the new velocity).
rocketUpdate(e, p, s) ==
    { m \in ((e - 1)..(e + 1)) \X ((p - 1)..(p + 1)) \X ((s - 1)..(s + 1)) :
        /\ m[1] \in 0..MaxCells
        /\ m[2] \in 0..MaxCells
        /\ m[3] \in 1..Len(SpeedLevels)
        /\ Feasible(m[1], m[2])
        /\ (SpeedLevels[m[3]] = 0 => (m[1] = e /\ m[2] = p)) }

(* ------------------------- landing classification ---------------------- *)
\* checkLanding classifying the contact on every tick it lasts
checkLandingEveryTick(landed, altitude, speed10) ==
    IF altitude < ContactAltitude
    THEN IF speed10 < MaxLandingSpeed10 THEN "success" ELSE "crash"
    ELSE "none"

\* Planet.checkLanding: fires once per contact episode.
checkLanding(landed, altitude, speed10) ==
    IF altitude < ContactAltitude /\ ~landed
    THEN IF speed10 < MaxLandingSpeed10 THEN "success" ELSE "crash"
    ELSE "none"

contactFlag(altitude) == altitude < ContactAltitude

(* ------------------------------ handlers ------------------------------- *)
setPhase(g, p) ==
    [g EXCEPT !.gameState = p,
              !.phaseLog = IF g.gameState = p THEN @ ELSE Append(@, p)]

onGameOver(g, reason) ==
    [setPhase(g, "gameOver") EXCEPT !.events = Append(@, reason)]

difficulty(b) == IF b = Earth THEN EarthDifficulty ELSE PlanetDifficulty

\* a success handler that respawns at once instead of through the timer
onLandingSuccessImmediate(g, b, f) ==
    LET h == [g EXCEPT !.events = Append(@, "success")]
    IN  IF b \notin g.visitedPlanets
        THEN setPhase([h EXCEPT !.planetsVisited = @ + 1,
                                !.visitedPlanets = @ \cup {b},
                                !.score = @ + 1000 * difficulty(b) + f * 10],
                      "launch")
        ELSE h

\* a success handler that counts the landing before looking at the set
onLandingSuccessCountsFirst(g, b, f) ==
    LET h == [g EXCEPT !.events = Append(@, "success"),
                       !.planetsVisited = @ + 1]
    IN  IF b \notin g.visitedPlanets
        THEN [h EXCEPT !.visitedPlanets = @ \cup {b},
                       !.score = @ + 1000 * difficulty(b) + f * 10,
                       !.respawnTimers = @ + 1]
        ELSE h

onLandingSuccess(g, b, f) ==
    LET h == [g EXCEPT !.events = Append(@, "success")]
    IN  IF b \notin g.visitedPlanets
        THEN [h EXCEPT !.planetsVisited = @ + 1,
                       !.visitedPlanets = @ \cup {b},
                       !.score = @ + 1000 * difficulty(b) + f * 10,
                       !.respawnTimers = @ + 1]
        ELSE h

(* ------------------------------ view mode ------------------------------ *)
\* the return threshold without the 50% margin
returnThresholdSame == planetaryProximityThreshold

switchThreshold == planetaryProximityThreshold
returnThreshold == (planetaryProximityThreshold * 3) \div 2

\* updateViewMode looking at Earth alone
closestAltitudeEarthOnly(eAlt, pAlt) == eAlt

\* closestAltitude as updateViewMode computes it: the planets are only
\* visited when Earth itself is not near.
closestAltitude(eAlt, pAlt) ==
    IF eAlt < planetaryProximityThreshold THEN eAlt ELSE Min2(eAlt, pAlt)

\* updateViewMode that never comes back from 2d
updateViewModeOneWay(vm, eAlt, pAlt) ==
    LET c == closestAltitude(eAlt, pAlt)
    IN  IF vm = "3d" /\ c > returnThreshold THEN "2d" ELSE vm

updateViewMode(vm, eAlt, pAlt) ==
    LET c == closestAltitude(eAlt, pAlt)
    IN  IF vm = "2d" /\ c < switchThreshold THEN "3d"
        ELSE IF vm = "3d" /\ c > returnThreshold THEN "2d"
        ELSE vm

(* ---------------------------- checkGameState --------------------------- *)
\* the exit altitude set to the gear-deployment altitude
launchRuleLow(gs, eAlt) ==
    IF gs = "launch" /\ eAlt > 100 THEN "space" ELSE gs

launchRule(gs, eAlt) ==
    IF gs = "launch" /\ eAlt > 200 THEN "space" ELSE gs

\* a landing rule that also undoes itself
landingRuleBothWays(gs, closestPlanetAltitude) ==
    IF gs = "space" /\ closestPlanetAltitude < 200 THEN "landing"
    ELSE IF gs = "landing" /\ closestPlanetAltitude >= 200 THEN "space"
    ELSE gs

\* closestPlanetAltitude ranges over this.planets, which never holds Earth.
landingRule(gs, closestPlanetAltitude) ==
    IF gs = "space" /\ closestPlanetAltitude < 200 THEN "landing" ELSE gs

\* the landing checks handing a crash to the success handler as well
landingStepCrashScores(g, b, altitude, speed10, f) ==
    LET r == checkLanding(g.hasLanded[b], altitude, speed10)
        h == [g EXCEPT !.hasLanded[b] = contactFlag(altitude)]
    IN  IF r = "success" THEN onLandingSuccess(h, b, f)
        ELSE IF r = "crash" THEN onGameOver(onLandingSuccess(h, b, f), "crash")
        ELSE h

landingStep(g, b, altitude, speed10, f) ==
    LET r == checkLanding(g.hasLanded[b], altitude, speed10)
        h == [g EXCEPT !.hasLanded[b] = contactFlag(altitude)]
    IN  IF r = "success" THEN onLandingSuccess(h, b, f)
        ELSE IF r = "crash" THEN onGameOver(h, "crash")
        ELSE h

\* the out-of-fuel test with the altitude bar of the launch rule
outOfFuelAbove200(f, speed10, eAlt) == f <= 0 /\ speed10 < 1 /\ eAlt > 200

outOfFuel(f, speed10, eAlt) == f <= 0 /\ speed10 < 1 /\ eAlt > 10

checkGameState(g, eAlt, pAlt, speed10, f) ==
    LET g1 == setPhase(g, launchRule(g.gameState, eAlt))
        g2 == setPhase(g1, landingRule(g1.gameState, pAlt))
        g3 == [g2 EXCEPT !.viewMode = updateViewMode(@, eAlt, pAlt)]
        g4 == landingStep(g3, Earth, eAlt, speed10, f)
        g5 == landingStep(g4, Planet, pAlt, speed10, f)
    IN  IF outOfFuel(f, speed10, eAlt) THEN onGameOver(g5, "outOfFuel") ELSE g5

(* -------------------------------- camera ------------------------------- *)
\* updateCamera: in 3d mode the switch over gameState has no case for
\* gameOver, so cameraOffset stays undefined and cameraOffset.clone() throws.
cameraOffsetDefined(gs) == gs \in {"launch", "space", "landing"}

updateCameraThrows(vm, gs) == vm = "3d" /\ ~cameraOffsetDefined(gs)

(* --------------------------------- update ------------------------------ *)
\* AsteroidField.checkCollisions(rocket, 5): the asteroids move on their own,
\* so one may be in range wherever the craft is clear of both surfaces.
checkCollisions(hit, m) == hit /\ m[1] > 0 /\ m[2] > 0

\* update() without its guard on gameOver
returnsEarlyNever(gs) == FALSE

returnsEarly(gs) == gs = "gameOver"

\* updateLandingGearDeployment looking at Earth only
updateLandingGearDeploymentEarthOnly(eAlt, pAlt) == eAlt < 100

\* Game.updateLandingGearDeployment: shouldDeploy
updateLandingGearDeployment(eAlt, pAlt) == eAlt < 100 \/ pAlt < 100

update(boost, hit, m) ==
    IF returnsEarly(gameState)
    THEN /\ last' = "updateReturned"
         /\ phaseLog' = <<gameState>>
         /\ events' = <<>>
         /\ UNCHANGED <<gameState, viewMode, score, planetsVisited,
                        visitedPlanets, earthCells, planetCells, speedLevel,
                        fuel, hasLanded, respawnTimers, gearDeployed,
                        cameraSaw>>
    ELSE LET fuel1 == IF boost THEN applyMainThrust(fuel) ELSE fuel
             g0 == [gameState |-> gameState, viewMode |-> viewMode,
                    score |-> score, planetsVisited |-> planetsVisited,
                    visitedPlanets |-> visitedPlanets,
                    respawnTimers |-> respawnTimers, hasLanded |-> hasLanded,
                    events |-> <<>>, phaseLog |-> <<gameState>>]
             g1 == IF checkCollisions(hit, m)
                   THEN onGameOver(g0, "collision") ELSE g0
             throws == updateCameraThrows(g1.viewMode, g1.gameState)
             g2 == IF throws THEN g1
                   ELSE checkGameState(g1, m[1] * GridStep, m[2] * GridStep,
                                       SpeedLevels[m[3]], fuel1)
         IN  /\ fuel' = fuel1
             /\ earthCells' = m[1]
             /\ planetCells' = m[2]
             /\ speedLevel' = m[3]
             /\ cameraSaw' = [viewMode |-> g1.viewMode,
                              gameState |-> g1.gameState]
             /\ gearDeployed' = updateLandingGearDeployment(m[1] * GridStep,
                                                            m[2] * GridStep)
             /\ gameState' = g2.gameState
             /\ viewMode' = g2.viewMode
             /\ score' = g2.score
             /\ planetsVisited' = g2.planetsVisited
             /\ visitedPlanets' = g2.visitedPlanets
             /\ respawnTimers' = g2.respawnTimers
             /\ hasLanded' = g2.hasLanded
             /\ events' = g2.events
             /\ phaseLog' = g2.phaseLog
             /\ last' = IF throws THEN "updateThrew" ELSE "update"

\* One frame: the inputs are the boost key, whether some asteroid has come
\* within collision range, and the outcome of the integration step.
Tick ==
    /\ \E boost \in BOOLEAN, hit \in BOOLEAN :
          \E m \in rocketUpdate(earthCells, planetCells, speedLevel) :
              update(boost, hit, m)
    /\ UNCHANGED notGame

\* The callback onLandingSuccess hands to setTimeout(..., 3000).
RespawnFire ==
    /\ respawnTimers > 0
    /\ respawnTimers' = respawnTimers - 1
    /\ fuel' = MaxFuel
    /\ speedLevel' = 1
    /\ earthCells' = 0
    /\ planetCells' = HomePlanetCells
    /\ gameState' = "launch"
    /\ last' = "respawn"
    /\ phaseLog' = <<gameState, "launch">>
    /\ events' = <<>>
    /\ UNCHANGED <<viewMode, score, planetsVisited, visitedPlanets, hasLanded,
                   gearDeployed, cameraSaw>>
    /\ UNCHANGED notGame

GameInit ==
    /\ gameState = "launch"
    /\ viewMode = "3d"
    /\ score = 0
    /\ planetsVisited = 0
    /\ visitedPlanets = {}
    /\ earthCells = 0
    /\ planetCells = HomePlanetCells
    /\ speedLevel = 1
    /\ fuel = MaxFuel
    /\ hasLanded = [b \in Bodies |-> b = Earth]
    /\ respawnTimers = 0
    /\ last = "init"
    /\ phaseLog = <<"launch">>
    /\ events = <<>>
    /\ gearDeployed \in BOOLEAN
    /\ cameraSaw = [viewMode |-> "3d", gameState |-> "launch"]

(* ======================== single-planet sub-scene ====================== *)
sceneAltitude == SceneAltLevels[sceneAlt]
sceneSpeed10 == SceneSpeedLevels[sceneSpeed]

\* updateGameState with the thresholds of the unscaled planet
updateGameStateUnscaled(gs, altitude, speed10) ==
    IF gs = "approaching" /\ altitude < 100 THEN "landing"
    ELSE IF gs = "landing" /\ speed10 < 10 /\ altitude < 5 THEN "landed"
    ELSE IF gs = "landed" /\ speed10 > 50 THEN "launching"
    ELSE IF gs = "launching" /\ altitude > 100 THEN "approaching"
    ELSE gs

\* updateGameState lifting off from the landing phase as well
updateGameStateLiftoffFromLanding(gs, altitude, speed10) ==
    IF gs = "approaching" /\ altitude < 800 THEN "landing"
    ELSE IF gs = "landing" /\ speed10 < 10 /\ altitude < 40 THEN "landed"
    ELSE IF gs \in {"landed", "landing"} /\ speed10 > 50 THEN "launching"
    ELSE IF gs = "launching" /\ altitude > 800 THEN "approaching"
    ELSE gs

\* PlanetScene.updateGameState
updateGameState(gs, altitude, speed10) ==
    IF gs = "approaching" /\ altitude < 800 THEN "landing"
    ELSE IF gs = "landing" /\ speed10 < 10 /\ altitude < 40 THEN "landed"
    ELSE IF gs = "landed" /\ speed10 > 50 THEN "launching"
    ELSE IF gs = "launching" /\ altitude > 800 THEN "approaching"
    ELSE gs

\* Rocket.update in the sub-scene: the speed and the altitude each move to a
\* neighbouring level, the altitude only when the new speed is not zero.
sceneRocketUpdate(a, s) ==
    { m \in ((a - 1)..(a + 1)) \X ((s - 1)..(s + 1)) :
        /\ m[1] \in 1..Len(SceneAltLevels)
        /\ m[2] \in 1..Len(SceneSpeedLevels)
        /\ (SceneSpeedLevels[m[2]] = 0 => m[1] = a) }

\* PlanetScene.updateLandingGear
updateLandingGear(altitude) == altitude < 800

\* PlanetScene.onGameOver(message): the overlay shows the message; no field
\* of the scene is written.
sceneOnGameOver(text, message) == message

\* the out-of-fuel test that ends PlanetScene.update; altitude is the value
\* read before the integration step
sceneOutOfFuel(f, speed10, altitude) == f <= 0 /\ speed10 < 1 /\ altitude > 80

\* PlanetScene.update(deltaTime)
sceneUpdate(boost, m) ==
    LET fuel1 == IF boost THEN applyMainThrust(sceneFuel) ELSE sceneFuel
        altitude0 == sceneAltitude
        altitude == SceneAltLevels[m[1]]
        speed10 == SceneSpeedLevels[m[2]]
        r == checkLanding(sceneHasLanded, altitude, speed10)
        ev1 == IF r = "crash" THEN <<"crash">> ELSE <<>>
        ev2 == IF sceneOutOfFuel(fuel1, speed10, altitude0)
               THEN Append(ev1, "outOfFuel") ELSE ev1
    IN  /\ (r = "success" => sceneTimers < MaxSceneTimers)
        /\ sceneFuel' = fuel1
        /\ sceneAlt' = m[1]
        /\ sceneSpeed' = m[2]
        /\ sceneState' = updateGameState(sceneState, altitude, speed10)
        /\ sceneGear' = updateLandingGear(altitude)
        /\ sceneHasLanded' = contactFlag(altitude)
        /\ sceneTimers' = IF r = "success" THEN sceneTimers + 1 ELSE sceneTimers
        /\ sceneEvents' = ev2
        /\ sceneOverText' = IF ev2 = <<>> THEN sceneOverText
                            ELSE sceneOnGameOver(sceneOverText, ev2[Len(ev2)])
        /\ sceneLast' = "update"
        /\ scenePhaseBefore' = sceneState
        /\ UNCHANGED <<scenePlanet, sceneLeaving>>

SceneTick ==
    /\ sceneLast # "constructed"
    /\ \E boost \in BOOLEAN :
          \E m \in sceneRocketUpdate(sceneAlt, sceneSpeed) :
              sceneUpdate(boost, m)
    /\ UNCHANGED notScene

\* The callback PlanetScene.onLandingSuccess hands to setTimeout(..., 2000).
SceneRespawnFire ==
    /\ sceneTimers > 0
    /\ sceneTimers' = sceneTimers - 1
    /\ sceneFuel' = MaxFuel
    /\ sceneSpeed' = 1
    /\ sceneAlt' = 1
    /\ sceneState' = "launching"
    /\ sceneLast' = "respawn"
    /\ scenePhaseBefore' = sceneState
    /\ sceneEvents' = <<>>
    /\ UNCHANGED <<sceneHasLanded, scenePlanet, sceneGear, sceneLeaving,
                   sceneOverText>>
    /\ UNCHANGED notScene

\* isRocketLeavingPlanet with the threshold counted as leaving
isRocketLeavingPlanetInclusive(altitude) == altitude >= exitThreshold

\* PlanetScene.isRocketLeavingPlanet()
isRocketLeavingPlanet(altitude) == altitude > exitThreshold

\* The host polls isRocketLeavingPlanet() between ticks.
SceneExitQuery ==
    /\ sceneLast # "constructed"
    /\ sceneLeaving' = isRocketLeavingPlanet(sceneAltitude)
    /\ sceneLast' = "exitQuery"
    /\ scenePhaseBefore' = sceneState
    /\ UNCHANGED <<sceneState, sceneAlt, sceneSpeed, sceneFuel, sceneHasLanded,
                   sceneTimers, scenePlanet, sceneGear, sceneEvents,
                   sceneOverText>>
    /\ UNCHANGED notScene

\* transferRocketFromSolarSystem without the branch for Earth
transferAlwaysOnSurface(dest, sourceFuel, gear) ==
    [fuel |-> sourceFuel, speed |-> 1, alt |-> 1, gear |-> TRUE,
     state |-> "landed"]

\* PlanetScene.transferRocketFromSolarSystem(solarSystemRocket): what it
\* leaves in the scene's rocket and phase
transferRocketFromSolarSystem(dest, sourceFuel, gear) ==
    IF dest = Earth
    THEN [fuel |-> sourceFuel, speed |-> 1, alt |-> 1, gear |-> TRUE,
          state |-> "landed"]
    ELSE [fuel |-> sourceFuel, speed |-> 1, alt |-> ApproachLevel,
          gear |-> gear, state |-> "approaching"]

\* The host hands the system-wide craft to the freshly built scene.
SceneTransfer ==
    /\ sceneLast = "constructed"
    /\ LET t == transferRocketFromSolarSystem(scenePlanet, fuel, sceneGear)
       IN  /\ sceneFuel' = t.fuel
           /\ sceneSpeed' = t.speed
           /\ sceneAlt' = t.alt
           /\ sceneGear' = t.gear
           /\ sceneState' = t.state
           /\ sceneHasLanded' = contactFlag(SceneAltLevels[t.alt])
    /\ sceneLast' = "transfer"
    /\ scenePhaseBefore' = sceneState
    /\ UNCHANGED <<sceneTimers, scenePlanet, sceneLeaving, sceneEvents,
                   sceneOverText>>
    /\ UNCHANGED notScene

\* The sub-scene after its constructor: the phase is approaching and the
\* rocket has not been placed yet (sceneAlt = 0 stands for "no pose").
SceneInit ==
    /\ scenePlanet \in Bodies
    /\ sceneFuel = MaxFuel
    /\ sceneSpeed = 1
    /\ sceneAlt = 0
    /\ sceneState = "approaching"
    /\ sceneGear \in BOOLEAN
    /\ sceneHasLanded = FALSE
    /\ sceneTimers = 0
    /\ sceneLeaving = FALSE
    /\ sceneEvents = <<>>
    /\ sceneOverText = "none"
    /\ scenePhaseBefore = "approaching"
    /\ sceneLast = "constructed"

\* While the system-wide scene runs, the sub-scene is the one kept for Earth.
SceneIdle ==
    /\ scenePlanet = Earth
    /\ sceneFuel = MaxFuel
    /\ sceneSpeed = 1
    /\ sceneAlt = 1
    /\ sceneState = "landed"
    /\ sceneGear = TRUE
    /\ sceneHasLanded = TRUE
    /\ sceneTimers = 0
    /\ sceneLeaving = FALSE
    /\ sceneEvents = <<>>
    /\ sceneOverText = "none"
    /\ scenePhaseBefore = "approaching"
    /\ sceneLast = "transfer"

\* The system-wide craft at the moment the host builds a sub-scene: any fuel
\* and any speed.
GameAtTransfer ==
    /\ gameState = "space"
    /\ viewMode = "3d"
    /\ score = 0
    /\ planetsVisited = 0
    /\ visitedPlanets = {}
    /\ earthCells = 0
    /\ planetCells = HomePlanetCells
    /\ speedLevel \in 1..Len(SpeedLevels)
    /\ fuel \in 0..MaxFuel
    /\ hasLanded = [b \in Bodies |-> b = Earth]
    /\ respawnTimers = 0
    /\ last = "init"
    /\ phaseLog = <<"space">>
    /\ events = <<>>
    /\ gearDeployed = FALSE
    /\ cameraSaw = [viewMode |-> "3d", gameState |-> "space"]

(* =============================== gravity =============================== *)
\* Positions are integer points of the plane z = 0 chosen so that every
\* craft-body distance is an integer; accelerations are exact, in units of
\* 1 / (10 * GravUnit).
G10 == 1
GravUnit == 512 * 27 * 125

GravBodies == {"Earth", "Moon", "Mars"}
GravPosition ==
    [b \in GravBodies |->
        CASE b = "Earth" -> <<0, 0, 0>>
          [] b = "Moon" -> <<6, 0, 0>>
          [] OTHER -> <<3, 4, 0>>]
MassLevels == {1, 2}

\* a Vector3 whose components are all numbers (nan = FALSE) or all NaN
Vec(x, y, z) == [nan |-> FALSE, x |-> x, y |-> y, z |-> z]
NaNVec == [nan |-> TRUE, x |-> 0, y |-> 0, z |-> 0]
ZeroVec == Vec(0, 0, 0)

\* Vector3.add: a NaN component stays NaN
add(u, v) ==
    IF u.nan \/ v.nan THEN NaNVec ELSE Vec(u.x + v.x, u.y + v.y, u.z + v.z)

ISqrt(n) == CHOOSE r \in 0..n : r * r = n
IsSquare(n) == \E r \in 0..n : r * r = n

distance2(a, b) ==
    (a[1] - b[1]) * (a[1] - b[1]) + (a[2] - b[2]) * (a[2] - b[2])
      + (a[3] - b[3]) * (a[3] - b[3])

\* Vector3.distanceTo
distanceTo(a, b) == ISqrt(distance2(a, b))

\* the craft positions of the model: the bodies' centres and the points at
\* an integer distance that divides GravUnit from every body
GravPoints ==
    { p \in (0..8) \X (-4..8) \X {0} :
        \A b \in GravBodies :
            /\ IsSquare(distance2(p, GravPosition[b]))
            /\ LET d == distanceTo(p, GravPosition[b])
               IN  d = 0 \/ GravUnit % (d * d * d) = 0 }

\* Physics.calculateGravityForce: a number, or a Vector3 at distance 0
calculateGravityForce(mass1, mass2, distance) ==
    IF distance = 0
    THEN [isNumber |-> FALSE, v |-> 0]
    ELSE [isNumber |-> TRUE,
          v |-> (G10 * mass1 * mass2 * GravUnit) \div (distance * distance)]

\* Physics.applyGravity: direction.multiplyScalar(force / object.mass); a
\* Vector3 divided by a number is NaN, and NaN times any component is NaN
applyGravity(objectPos, objectMass, planetPos, planetMass) ==
    LET distance == distanceTo(objectPos, planetPos)
        force == calculateGravityForce(objectMass, planetMass, distance)
    IN  IF ~force.isNumber
        THEN NaNVec
        ELSE LET a == force.v \div objectMass
             IN  Vec(((planetPos[1] - objectPos[1]) * a) \div distance,
                     ((planetPos[2] - objectPos[2]) * a) \div distance,
                     ((planetPos[3] - objectPos[3]) * a) \div distance)

\* the gravity loop keeping only the last body's pull
gravityLoopOverwrite(total, g, planets) ==
    IF planets = <<>> THEN total ELSE g[planets[Len(planets)]]

\* Game.update: planets.forEach(planet => totalGravity.add(gravity))
RECURSIVE gravityLoop(_, _, _)
gravityLoop(total, g, planets) ==
    IF planets = <<>> THEN total
    ELSE gravityLoop(add(total, g[Head(planets)]), g, Tail(planets))

\* Game.update, the gravity of one tick with the craft at p
GravTick ==
    /\ \E p \in GravPoints :
          LET g == [b \in GravBodies |->
                      applyGravity(p, gravRocketMass, GravPosition[b],
                                   gravMass[b])]
          IN  /\ gravPos' = p
              /\ gravityOf' = g
              /\ forceOf' = [b \in GravBodies |->
                                calculateGravityForce(
                                    gravRocketMass, gravMass[b],
                                    distanceTo(p, GravPosition[b]))]
              /\ totalGravity' = gravityLoop(g["Earth"], g, gravPlanets)
    /\ gravLast' = "update"
    /\ UNCHANGED <<gravRocketMass, gravMass, gravPlanets>>
    /\ UNCHANGED notGravity

\* the catalogue: any masses, the planets in any order
GravInit ==
    /\ gravPos = <<3, 0, 0>>
    /\ gravRocketMass \in MassLevels
    /\ gravMass \in [GravBodies -> MassLevels]
    /\ gravPlanets \in {<<"Moon", "Mars">>, <<"Mars", "Moon">>}
    /\ gravityOf = [b \in GravBodies |-> ZeroVec]
    /\ forceOf = [b \in GravBodies |-> [isNumber |-> TRUE, v |-> 0]]
    /\ totalGravity = ZeroVec
    /\ gravLast = "init"

\* the gravity part at rest while another specification runs
GravIdle ==
    /\ gravPos = <<3, 0, 0>>
    /\ gravRocketMass = 1
    /\ gravMass = [b \in GravBodies |-> 1]
    /\ gravPlanets = <<"Moon", "Mars">>
    /\ gravityOf = [b \in GravBodies |-> ZeroVec]
    /\ forceOf = [b \in GravBodies |-> [isNumber |-> TRUE, v |-> 0]]
    /\ totalGravity = ZeroVec
    /\ gravLast = "init"

(* ============================ flight controls ========================== *)
\* representative speeds, in tenths: 0, 0.3, 0.5, 0.6 and 2.0
FlightSpeedLevels == <<0, 3, 5, 6, 20>>
flSpeed10 == FlightSpeedLevels[flSpeed]

\* what clock.getDelta() can report, in ms: the first call gives 0
HostDeltaLevels == {0, 8, 16, 250}
\* the deltaTime the host hands to PlanetScene.update, in ms
SceneDeltaLevels == {8, 16, 33}

NoMovement ==
    [forward |-> FALSE, backward |-> FALSE, left |-> FALSE, right |-> FALSE,
     boost |-> FALSE, decelerate |-> FALSE]

\* the command records of the model: each key alone, opposite keys together,
\* boost with a direction, and all keys
Movements ==
    { NoMovement,
      [NoMovement EXCEPT !.forward = TRUE],
      [NoMovement EXCEPT !.backward = TRUE],
      [NoMovement EXCEPT !.left = TRUE],
      [NoMovement EXCEPT !.right = TRUE],
      [NoMovement EXCEPT !.decelerate = TRUE],
      [NoMovement EXCEPT !.boost = TRUE],
      [NoMovement EXCEPT !.forward = TRUE, !.backward = TRUE],
      [NoMovement EXCEPT !.left = TRUE, !.right = TRUE],
      [NoMovement EXCEPT !.boost = TRUE, !.right = TRUE],
      [forward |-> TRUE, backward |-> TRUE, left |-> TRUE, right |-> TRUE,
       boost |-> TRUE, decelerate |-> TRUE] }

\* update() taking the clock's delta as it comes
clampDeltaTimeNever(hostDelta) == hostDelta

\* Game.update: Math.min(this.clock.getDelta(), 0.016)
clampDeltaTime(hostDelta) == IF hostDelta < 16 THEN hostDelta ELSE 16

\* the main thrust firing whatever the boost key says
mainThrustAlways(movement, f) == applyMainThrust(f)

\* if (movement.boost) rocket.applyMainThrust(...): the fuel it leaves
mainThrust(movement, f) == IF movement.boost THEN applyMainThrust(f) ELSE f

\* the speed after the main thrust: one level up while there is fuel
mainThrustSpeed(movement, f, s) ==
    IF movement.boost /\ f > 0 /\ s < Len(FlightSpeedLevels) THEN s + 1 ELSE s

\* rcsDirection as the two updates build it, in hundredths: the keys move x
\* and z by step, decelerate adds a vector of length brake against the
\* velocity (nothing when the velocity is zero, normalize() leaving it zero)
rcsDirection(movement, speed10, step, brake) ==
    [x |-> (IF movement.right THEN step ELSE 0)
             - (IF movement.left THEN step ELSE 0),
     z |-> (IF movement.backward THEN step ELSE 0)
             - (IF movement.forward THEN step ELSE 0),
     against |-> IF movement.decelerate /\ speed10 > 0 THEN brake ELSE 0]

\* rcsDirection.length() > 0: brake is longer than any sum of the keys
rcsLengthPositive(d) == d.x # 0 \/ d.z # 0 \/ d.against # 0

\* the RCS block of Game.update without its floor on the speed
rcsAvailableAlways(speed10) == TRUE

\* Game.update: if (this.rocket.getSpeed() > 0.5)
rcsAvailable(speed10) == speed10 > 5

\* the RCS block of PlanetScene.update with the floor of Game.update
sceneRcsAvailableAboveFloor(speed10) == speed10 > 5

\* PlanetScene.update: the RCS block has no condition on the speed
sceneRcsAvailable(speed10) == TRUE

\* rotationInput of PlanetScene.update, in tenths
rotationInput(movement) ==
    [x |-> (IF movement.forward THEN 8 ELSE 0)
             - (IF movement.backward THEN 8 ELSE 0),
     z |-> (IF movement.left THEN 8 ELSE 0)
             - (IF movement.right THEN 8 ELSE 0)]

NoRotation == [x |-> 0, z |-> 0]

\* rotationInput.multiplyScalar(deltaTime * 3), added to angularVelocity
angularIncrement(movement, deltaTime) ==
    LET r == rotationInput(movement)
    IN  IF r = NoRotation THEN NoRotation
        ELSE [x |-> r.x * deltaTime * 3, z |-> r.z * deltaTime * 3]

\* the speed levels next to level s
flightNeighbours(s) == { t \in (s - 1)..(s + 1) : t \in 1..Len(FlightSpeedLevels) }

\* One tick seen from the craft's controls: thrust, RCS, rotation, then the
\* integration step, which moves the speed to a neighbouring level.  available
\* is the scene's test on the speed, step and brake its RCS constants.
flightTick(movement, deltaTime, available, step, brake, rotates) ==
    LET fuel1 == mainThrust(movement, flFuel)
        speed1 == mainThrustSpeed(movement, flFuel, flSpeed)
        direction == rcsDirection(movement, FlightSpeedLevels[speed1], step, brake)
        applied == available /\ rcsLengthPositive(direction)
    IN  /\ \E sRcs \in (IF applied THEN flightNeighbours(speed1) ELSE {speed1}) :
              /\ flRcsSpeedAfter' = sRcs
              /\ flSpeed' \in flightNeighbours(sRcs)
        /\ flMovement' = movement
        /\ flDeltaTime' = deltaTime
        /\ flFuel' = fuel1
        /\ flRcsFuel' = fuel1
        /\ flRcsSpeed' = speed1
        /\ flRcsApplied' = applied
        /\ flAngularChange' = IF rotates THEN angularIncrement(movement, deltaTime)
                              ELSE NoRotation
        /\ flLast' = "update"
        /\ UNCHANGED flScene

\* Game.update, from the clock to rocket.update
FlightGameTick ==
    /\ flScene = "game"
    /\ \E movement \in Movements, hostDelta \in HostDeltaLevels :
          /\ flHostDelta' = hostDelta
          /\ flightTick(movement, clampDeltaTime(hostDelta),
                        rcsAvailable(FlightSpeedLevels[
                            mainThrustSpeed(movement, flFuel, flSpeed)]),
                        15, 30, FALSE)
    /\ UNCHANGED notFlight

\* PlanetScene.update(deltaTime), from the input to rocket.update
FlightSceneTick ==
    /\ flScene = "planet"
    /\ \E movement \in Movements, deltaTime \in SceneDeltaLevels :
          /\ flHostDelta' = deltaTime
          /\ flightTick(movement, deltaTime,
                        sceneRcsAvailable(FlightSpeedLevels[
                            mainThrustSpeed(movement, flFuel, flSpeed)]),
                        25, 40, TRUE)
    /\ UNCHANGED notFlight

\* The host moves the craft into a sub-scene.
FlightTransfer ==
    /\ flScene = "game"
    /\ \E dest \in Bodies :
          LET t == transferRocketFromSolarSystem(dest, flFuel, FALSE)
          IN  /\ flFuel' = t.fuel
              /\ flSpeed' = t.speed
    /\ flScene' = "planet"
    /\ flLast' = "transfer"
    /\ UNCHANGED <<flMovement, flHostDelta, flDeltaTime, flRcsSpeed, flRcsFuel,
                   flRcsSpeedAfter, flRcsApplied, flAngularChange>>
    /\ UNCHANGED notFlight

FlightInit ==
    /\ flScene = "game"
    /\ flMovement = NoMovement
    /\ flHostDelta = 0
    /\ flDeltaTime = 0
    /\ flFuel = MaxFuel
    /\ flSpeed = 1
    /\ flRcsSpeed = 1
    /\ flRcsFuel = MaxFuel
    /\ flRcsSpeedAfter = 1
    /\ flRcsApplied = FALSE
    /\ flAngularChange = NoRotation
    /\ flLast = "init"

\* the flight part at rest while another specification runs
FlightIdle == FlightInit

(* ================================ camera =============================== *)
\* Lengths are in tenths of a unit.  The craft's orientation is a pitch of
\* 0 or 90 degrees about x followed by a yaw of 0, 90, 180 or 270 degrees
\* about y, so that rotated vectors stay integer.
CamSpeedLevels == {0, 100, 300}
CamPositions == {<<0, 0, 0>>, <<1000, 50, -200>>}
Orientations == [yaw : 0..3, pitch : 0..1]
IdentityOrientation == [yaw |-> 0, pitch |-> 0]

\* a quarter turn about the x axis
pitchQuarter(v) == <<v[1], -v[3], v[2]>>

\* k quarter turns about the y axis
RECURSIVE yawQuarters(_, _)
yawQuarters(v, k) ==
    IF k = 0 THEN v ELSE yawQuarters(<<v[3], v[2], -v[1]>>, k - 1)

\* Vector3.applyQuaternion(rocket.mesh.quaternion)
applyQuaternion(v, q) ==
    yawQuarters(IF q.pitch = 1 THEN pitchQuarter(v) ELSE v, q.yaw)

addVectors(a, b) == <<a[1] + b[1], a[2] + b[2], a[3] + b[3]>>

\* the switch over gameState in updateCamera: cameraOffset and
\* useRocketRotation; no case matches gameOver
cameraOffset(gs, speed10) ==
    CASE gs = "launch" -> [defined |-> TRUE, offset |-> <<300, 200, 500>>,
                           useRocketRotation |-> FALSE]
      [] gs = "space" -> [defined |-> TRUE,
                          offset |-> <<0, 50, 400 + Min2(speed10 * 3, 600)>>,
                          useRocketRotation |-> TRUE]
      [] gs = "landing" -> [defined |-> TRUE, offset |-> <<0, 150, 150>>,
                            useRocketRotation |-> TRUE]
      [] OTHER -> [defined |-> FALSE, offset |-> <<0, 0, 0>>,
                   useRocketRotation |-> TRUE]

\* updateCamera turning the launch offset with the craft as well
desiredPositionTurningAtLaunch(vm, gs, position, q, speed10) ==
    IF vm = "2d"
    THEN [threw |-> FALSE,
          p |-> <<position[1], position[2] + 800 + Min2(speed10 * 2, 400),
                  position[3]>>]
    ELSE LET c == cameraOffset(gs, speed10)
         IN  IF ~c.defined THEN [threw |-> TRUE, p |-> <<0, 0, 0>>]
             ELSE [threw |-> FALSE,
                   p |-> addVectors(position, applyQuaternion(c.offset, q))]

\* Game.updateCamera: desiredPosition, or the TypeError of
\* cameraOffset.clone() when the switch matched no case
desiredPosition(vm, gs, position, q, speed10) ==
    IF vm = "2d"
    THEN [threw |-> FALSE,
          p |-> <<position[1], position[2] + 800 + Min2(speed10 * 2, 400),
                  position[3]>>]
    ELSE LET c == cameraOffset(gs, speed10)
         IN  IF ~c.defined THEN [threw |-> TRUE, p |-> <<0, 0, 0>>]
             ELSE IF c.useRocketRotation
             THEN [threw |-> FALSE,
                   p |-> addVectors(position, applyQuaternion(c.offset, q))]
             ELSE [threw |-> FALSE, p |-> addVectors(position, c.offset)]

\* Game.updateCamera for one state of the scene and of the craft
CameraUpdate ==
    /\ \E vm \in {"2d", "3d"}, gs \in Phases, position \in CamPositions,
          q \in Orientations, speed10 \in CamSpeedLevels :
          /\ camViewMode' = vm
          /\ camPhase' = gs
          /\ camRocketPos' = position
          /\ camQuaternion' = q
          /\ camSpeed10' = speed10
          /\ camDesired' = desiredPosition(vm, gs, position, q, speed10)
    /\ camLast' = "updateCamera"
    /\ UNCHANGED notCamera

CameraInit ==
    /\ camViewMode = "3d"
    /\ camPhase = "launch"
    /\ camRocketPos = <<0, 0, 0>>
    /\ camQuaternion = IdentityOrientation
    /\ camSpeed10 = 0
    /\ camDesired = [threw |-> FALSE, p |-> <<0, 0, 0>>]
    /\ camLast = "init"

\* the camera part at rest while another specification runs
CameraIdle == CameraInit

(* ====================== sub-scene: gravity and drag ==================== *)
\* Altitudes are even numbers of units.  A drag coefficient c is held as
\* DragScale(c) = (c / maxDrag)^2 * 1200^3, which is an integer at every even
\* altitude and orders coefficients as the coefficients themselves are
\* ordered; maxDrag itself is held as 1200^3.
atmosphereHeight == 2400
maxDragScaled == 1200 * 1200 * 1200
DragAltitudeLevels ==
    {-2, 0, 2, 100, 398, 400, 1200, 2200, 2398, 2400, 2402, 3000}
DragRadiusLevels == {400, 800}
DragVelocityLevels == {-3, 0, 4}
DragVelocities == DragVelocityLevels \X DragVelocityLevels

\* calculateAtmosphericDrag with the same coefficient all through the
\* atmosphere
calculateAtmosphericDragFlat(altitude) ==
    IF altitude >= atmosphereHeight THEN 0 ELSE maxDragScaled

\* PlanetScene.calculateAtmosphericDrag: maxDrag * (1 - altitude / 2400)^1.5
calculateAtmosphericDrag(altitude) ==
    IF altitude >= atmosphereHeight
    THEN 0
    ELSE LET half == (atmosphereHeight - altitude) \div 2
         IN  half * half * half

\* gravityMultiplier of applyEnhancedGravity, times 20 * radius
gravityMultiplier(distance, radius) ==
    LET enhancedGravityRange == radius * 6
        strongGravityRange == radius * 2
    IN  IF distance < strongGravityRange
        THEN 20 * radius + 25 * (strongGravityRange - distance)
        ELSE IF distance < enhancedGravityRange
        THEN 20 * radius + 4 * (enhancedGravityRange - distance)
        ELSE 20 * radius

\* PlanetScene.applyEnhancedGravity: whether the body is in range, the drag
\* coefficient asked for, the direction of the drag term (the velocity times
\* a negative scalar) and the multiplier applied to the sum
applyEnhancedGravity(radius, altitude, velocity) ==
    LET distance == radius + altitude
    IN  IF distance > radius * 6
        THEN [inRange |-> FALSE, dragAsked |-> FALSE, drag |-> 0,
              dragTerm |-> <<0, 0>>, multiplier |-> 0]
        ELSE IF altitude < 2400
        THEN LET atmosphericDrag == calculateAtmosphericDrag(altitude)
             IN  [inRange |-> TRUE, dragAsked |-> TRUE,
                  drag |-> atmosphericDrag,
                  dragTerm |-> IF atmosphericDrag = 0 THEN <<0, 0>>
                               ELSE <<-velocity[1], -velocity[2]>>,
                  multiplier |-> gravityMultiplier(distance, radius)]
        ELSE [inRange |-> TRUE, dragAsked |-> FALSE, drag |-> 0,
              dragTerm |-> <<0, 0>>,
              multiplier |-> gravityMultiplier(distance, radius)]

\* one call of calculateAtmosphericDrag
DragQuery ==
    /\ \E altitude \in DragAltitudeLevels :
          /\ dragAltitude' = altitude
          /\ dragCoefficient' = calculateAtmosphericDrag(altitude)
    /\ dragLast' = "calculateAtmosphericDrag"
    /\ UNCHANGED <<egRadius, egAltitude, egVelocity, egResult>>
    /\ UNCHANGED notDrag

\* one call of applyEnhancedGravity from PlanetScene.update
EnhancedGravity ==
    /\ \E radius \in DragRadiusLevels, altitude \in DragAltitudeLevels,
          velocity \in DragVelocities :
          /\ egRadius' = radius
          /\ egAltitude' = altitude
          /\ egVelocity' = velocity
          /\ egResult' = applyEnhancedGravity(radius, altitude, velocity)
    /\ dragLast' = "applyEnhancedGravity"
    /\ UNCHANGED <<dragAltitude, dragCoefficient>>
    /\ UNCHANGED notDrag

DragInit ==
    /\ dragAltitude = 3000
    /\ dragCoefficient = 0
    /\ egRadius = 800
    /\ egAltitude = 3000
    /\ egVelocity = <<0, 0>>
    /\ egResult = [inRange |-> TRUE, dragAsked |-> FALSE, drag |-> 0,
                   dragTerm |-> <<0, 0>>, multiplier |-> 0]
    /\ dragLast = "init"

\* the drag part at rest while another specification runs
DragIdle == DragInit

(* ============================ auto-orientation ========================= *)
\* Speeds are in tenths of a unit, altitudes in units.
OrientBodies == <<"Earth", "Moon", "Mars">>
OrientAltitudeLevels == {5, 19, 20, 25}
OrientSpeedLevels == {0, 149, 150}
OrientSceneAltitudeLevels == {0, 239, 240}
OrientSceneSpeedLevels == {0, 99, 100}
orientationAltitude == 20
NoBody == [name |-> "none", distance |-> 1000000]

\* the Earth test and the forEach over the planets of
\* Game.updateRocketOrientation, up to the i-th body; closestDistance starts
\* at Infinity
RECURSIVE closestPlanet(_, _)
closestPlanet(altitudes, i) ==
    IF i = 0 THEN NoBody
    ELSE LET before == closestPlanet(altitudes, i - 1)
             altitude == altitudes[OrientBodies[i]]
         IN  IF altitude < orientationAltitude /\ altitude < before.distance
             THEN [name |-> OrientBodies[i], distance |-> altitude]
             ELSE before

\* updateRocketOrientation turning the craft at any speed
updateRocketOrientationAnySpeed(altitudes, speed10) ==
    LET closest == closestPlanet(altitudes, Len(OrientBodies))
    IN  IF closest.name # "none"
        THEN [lookAt |-> TRUE, body |-> closest.name]
        ELSE [lookAt |-> FALSE, body |-> "none"]

\* Game.updateRocketOrientation: whether mesh.lookAt is called, and the body
\* the craft is turned away from
updateRocketOrientation(altitudes, speed10) ==
    LET closest == closestPlanet(altitudes, Len(OrientBodies))
    IN  IF closest.name # "none" /\ speed10 < 150
        THEN [lookAt |-> TRUE, body |-> closest.name]
        ELSE [lookAt |-> FALSE, body |-> "none"]

\* PlanetScene.updateRocketOrientation: whether quaternion.slerp is called
sceneUpdateRocketOrientation(altitude, speed10) ==
    altitude < 240 /\ speed10 < 100

\* Game.updateRocketOrientation in one tick of the system-wide scene
OrientGame ==
    /\ \E altitudes \in [{"Earth", "Moon", "Mars"} -> OrientAltitudeLevels],
          speed10 \in OrientSpeedLevels :
          /\ orAltitudes' = altitudes
          /\ orSpeed10' = speed10
          /\ orResult' = updateRocketOrientation(altitudes, speed10)
    /\ orLast' = "Game"
    /\ UNCHANGED <<orSceneAltitude, orSceneSpeed10, orSceneSlerp>>
    /\ UNCHANGED notOrient

\* PlanetScene.updateRocketOrientation in one tick of the sub-scene
OrientScene ==
    /\ \E altitude \in OrientSceneAltitudeLevels,
          speed10 \in OrientSceneSpeedLevels :
          /\ orSceneAltitude' = altitude
          /\ orSceneSpeed10' = speed10
          /\ orSceneSlerp' = sceneUpdateRocketOrientation(altitude, speed10)
    /\ orLast' = "PlanetScene"
    /\ UNCHANGED <<orAltitudes, orSpeed10, orResult>>
    /\ UNCHANGED notOrient

OrientInit ==
    /\ orAltitudes = [b \in {"Earth", "Moon", "Mars"} |-> 25]
    /\ orSpeed10 = 0
    /\ orResult = [lookAt |-> FALSE, body |-> "none"]
    /\ orSceneAltitude = 240
    /\ orSceneSpeed10 = 0
    /\ orSceneSlerp = FALSE
    /\ orLast = "init"

\* the orientation part at rest while another specification runs
OrientIdle == OrientInit

(* =========================== camera smoothing ========================== *)
\* Lengths are in tenths of a unit, cameraLerpSpeed in hundredths.  After n
\* interpolations a smoothed vector is held multiplied by 100^n, so that it
\* stays an exact integer vector.
LerpPositions == {<<0, 0, 0>>, <<100, 50, -200>>}
LerpPhases == {"launch", "space", "landing", "gameOver"}
LerpEarthAltitudes == {100, 400, 500}
LerpFarAltitude == 1000
LerpSpeed10 == 100

RECURSIVE Pow100(_)
Pow100(n) == IF n = 0 THEN 1 ELSE 100 * Pow100(n - 1)

\* Vector3.lerp jumping to its argument
lerpSnap(v, scale, w, alpha100) ==
    <<100 * scale * w[1], 100 * scale * w[2], 100 * scale * w[3]>>

\* Vector3.lerp(w, alpha) on a vector v held times scale; the result is held
\* times 100 * scale
lerp(v, scale, w, alpha100) ==
    <<100 * v[1] + alpha100 * (scale * w[1] - v[1]),
      100 * v[2] + alpha100 * (scale * w[2] - v[2]),
      100 * v[3] + alpha100 * (scale * w[3] - v[3])>>

\* the last statement of updateViewMode
cameraLerpSpeedOf(vm) == IF vm = "3d" THEN 8 ELSE 5

\* One tick as the camera sees it: updateCamera, then the view-mode
\* evaluation of checkGameState; a throwing updateCamera ends the tick.
LerpTick ==
    /\ lpUpdates < MaxCameraUpdates
    /\ \E gs \in LerpPhases, position \in LerpPositions,
          eAlt \in LerpEarthAltitudes :
          LET d == desiredPosition(lpViewMode, gs, position,
                                   IdentityOrientation, LerpSpeed10)
              scale == Pow100(lpUpdates)
              vm == updateViewMode(lpViewMode, eAlt, LerpFarAltitude)
          IN  IF d.threw
              THEN /\ lpLast' = "updateThrew"
                   /\ UNCHANGED <<lpViewMode, lpLerpSpeed, lpPosition,
                                  lpTarget, lpUpdates, lpDesired>>
              ELSE /\ lpPosition' = lerp(lpPosition, scale, d.p, lpLerpSpeed)
                   /\ lpTarget' = lerp(lpTarget, scale, position, lpLerpSpeed)
                   /\ lpDesired' = [position |-> d.p, target |-> position,
                                    alpha100 |-> lpLerpSpeed]
                   /\ lpUpdates' = lpUpdates + 1
                   /\ lpViewMode' = vm
                   /\ lpLerpSpeed' = cameraLerpSpeedOf(vm)
                   /\ lpLast' = "update"
    /\ UNCHANGED notLerp

\* the constructor and updateInitialCamera
LerpInit ==
    /\ lpViewMode = "3d"
    /\ lpLerpSpeed = 10
    /\ lpPosition = <<300, 200, 500>>
    /\ lpTarget = <<0, 0, 0>>
    /\ lpUpdates = 0
    /\ lpDesired = [position |-> <<300, 200, 500>>, target |-> <<0, 0, 0>>,
                    alpha100 |-> 10]
    /\ lpLast = "init"

\* the smoothing part at rest while another specification runs
LerpIdle == LerpInit

(* ============================ transfer pose ============================ *)
\* Radii of the enlarged sub-scene body for which the distance of the
\* approach pose from the centre is a whole number.
PoseRadii == {190, 442, 1195, 1696, 4198, 9199}
PoseBodies == {"Earth", "Mars"}

\* Vector3.length of (cos(a) * d, h, sin(a) * d)
poseDistance(d, h) == CHOOSE c \in d..(d + h) : c * c = d * d + h * h

\* the approach pose without its height of 200 above the body's equator
approachAltitudeInPlane(radius) == poseDistance(radius + 800, 0) - radius

\* planet.getAltitude of the pose transferRocketFromSolarSystem gives the
\* craft at a body other than Earth: radius + 800 out, 200 up
approachAltitude(radius) == poseDistance(radius + 800, 200) - radius

\* planet.getAltitude of the pose on Earth's surface
surfaceAltitude(radius) == poseDistance(radius + 2, 0) - radius

\* The host hands the craft to a scene built for a body of this radius.
PoseTransfer ==
    /\ \E name \in PoseBodies, radius \in PoseRadii, f \in 0..MaxFuel,
          gear \in BOOLEAN :
          LET t == transferRocketFromSolarSystem(name, f, gear)
          IN  /\ poName' = name
              /\ poRadius' = radius
              /\ poFuel' = t.fuel
              /\ poGear' = t.gear
              /\ poState' = t.state
              /\ poAltitude' = IF name = "Earth" THEN surfaceAltitude(radius)
                               ELSE approachAltitude(radius)
    /\ poLeaving' = FALSE
    /\ poLast' = "transfer"
    /\ UNCHANGED notPose

\* The host polls isRocketLeavingPlanet().
PoseExitQuery ==
    /\ poLast # "constructed"
    /\ poLeaving' = isRocketLeavingPlanet(poAltitude)
    /\ poLast' = "exitQuery"
    /\ UNCHANGED <<poName, poRadius, poFuel, poGear, poState, poAltitude>>
    /\ UNCHANGED notPose

\* A tick in which the craft does not move: updateGameState and
\* updateLandingGear read the same altitude, the speed is 0.
PoseStillTick ==
    /\ poLast # "constructed"
    /\ poState' = updateGameState(poState, poAltitude, 0)
    /\ poGear' = updateLandingGear(poAltitude)
    /\ poLast' = "update"
    /\ UNCHANGED <<poName, poRadius, poFuel, poAltitude, poLeaving>>
    /\ UNCHANGED notPose

\* the scene after its constructor, before the craft is placed
PoseInit ==
    /\ poName = "Earth"
    /\ poRadius = 190
    /\ poFuel = MaxFuel
    /\ poGear = FALSE
    /\ poState = "approaching"
    /\ poAltitude = 0
    /\ poLeaving = FALSE
    /\ poLast = "constructed"

\* the pose part at rest while another specification runs
PoseIdle == PoseInit

(* ============================ specifications =========================== *)
Idle ==
    /\ SceneIdle /\ GravIdle /\ FlightIdle /\ CameraIdle /\ DragIdle
    /\ OrientIdle /\ LerpIdle /\ PoseIdle

Init == GameInit /\ Idle

Next == Tick \/ RespawnFire

Spec == Init /\ [][Next]_vars

\* setTimeout callbacks are always run: a pending respawn fires eventually.
FairSpec == Spec /\ WF_vars(RespawnFire)

PlanetSceneInit ==
    GameAtTransfer /\ SceneInit /\ GravIdle /\ FlightIdle /\ CameraIdle /\ DragIdle
    /\ OrientIdle /\ LerpIdle /\ PoseIdle

PlanetSceneNext ==
    SceneTransfer \/ SceneTick \/ SceneRespawnFire \/ SceneExitQuery

PlanetSceneSpec == PlanetSceneInit /\ [][PlanetSceneNext]_vars

GravityInit ==
    GameInit /\ SceneIdle /\ GravInit /\ FlightIdle /\ CameraIdle /\ DragIdle
    /\ OrientIdle /\ LerpIdle /\ PoseIdle

GravityNext == GravTick

GravitySpec == GravityInit /\ [][GravityNext]_vars

FlightSpecInit ==
    GameInit /\ SceneIdle /\ GravIdle /\ FlightInit /\ CameraIdle /\ DragIdle
    /\ OrientIdle /\ LerpIdle /\ PoseIdle

FlightNext == FlightGameTick \/ FlightSceneTick \/ FlightTransfer

FlightSpec == FlightSpecInit /\ [][FlightNext]_vars

CameraSpecInit ==
    GameInit /\ SceneIdle /\ GravIdle /\ FlightIdle /\ CameraInit /\ DragIdle
    /\ OrientIdle /\ LerpIdle /\ PoseIdle

CameraNext == CameraUpdate

CameraSpec == CameraSpecInit /\ [][CameraNext]_vars

DragSpecInit == GameInit /\ Idle /\ DragInit

DragNext == DragQuery \/ EnhancedGravity

DragSpec == DragSpecInit /\ [][DragNext]_vars

OrientSpecInit == GameInit /\ Idle /\ OrientInit

OrientNext == OrientGame \/ OrientScene

OrientSpec == OrientSpecInit /\ [][OrientNext]_vars

LerpSpecInit == GameInit /\ Idle /\ LerpInit

LerpNext == LerpTick

LerpSpec == LerpSpecInit /\ [][LerpNext]_vars

PoseSpecInit == GameInit /\ Idle /\ PoseInit

PoseNext == PoseTransfer \/ PoseExitQuery \/ PoseStillTick

PoseSpec == PoseSpecInit /\ [][PoseNext]_vars

(* ======================= properties: system-wide scene ================= *)
TickKinds == {"update", "updateThrew", "updateReturned"}

closestBodyAltitude == Min2(earthAltitude, planetAltitude)

PhaseRank(p) ==
    CASE p = "launch" -> 1
      [] p = "space" -> 2
      [] p = "landing" -> 3
      [] OTHER -> 4

InLog(p) == \E i \in 1..Len(phaseLog) : phaseLog[i] = p
Happened(e) == \E i \in 1..Len(events) : events[i] = e

\* the phase the landing rule of checkGameState read in the last tick
PhaseAtLandingRule ==
    IF Len(phaseLog) >= 2 /\ phaseLog[2] = "space" THEN "space" ELSE phaseLog[1]

(* C1: a respawn callback that fires while the phase is gameOver has no     *)
(* effect: the phase stays gameOver and the craft is not reset.             *)
C1_StaleRespawnIgnored ==
    [][(gameState = "gameOver" /\ last' = "respawn")
         => (gameState' = "gameOver"
             /\ UNCHANGED <<earthCells, planetCells, speedLevel, fuel>>)]_vars

(* C2: no tick of the system-wide scene throws.                             *)
C2_NoTickThrows == last # "updateThrew"

(* C3: once the phase is gameOver, a tick changes neither the phase, the    *)
(* craft's position, velocity and fuel, the view mode, the score nor the    *)
(* visited count.                                                           *)
C3_GameOverTicksChangeNothing ==
    [][(gameState = "gameOver" /\ last' \in TickKinds)
         => UNCHANGED <<gameState, earthCells, planetCells, speedLevel, fuel,
                        viewMode, score, planetsVisited, visitedPlanets>>]_vars

C3_Witness == gameState = "gameOver" /\ last = "updateReturned"

(* C4: with T = 300, while the closest-body altitude is within [T, 1.5T]    *)
(* the view mode does not change, and every change of view mode happens     *)
(* with the altitude outside the band: below T when it becomes 3d, above    *)
(* 1.5T when it becomes 2d.                                                 *)
C4_Hysteresis ==
    [][/\ (closestBodyAltitude' >= 300 /\ closestBodyAltitude' <= 450)
            => viewMode' = viewMode
       /\ viewMode' # viewMode
            => \/ (viewMode' = "3d" /\ closestBodyAltitude' < 300)
               \/ (viewMode' = "2d" /\ closestBodyAltitude' > 450)]_vars

C4_Witness ==
    /\ last = "update"
    /\ viewMode = "2d"
    /\ closestBodyAltitude >= 300
    /\ closestBodyAltitude <= 450

(* C5: after every state check, an altitude below T = 300 to Earth or to    *)
(* the other body means the view mode is 3d; the view mode goes from 3d to  *)
(* 2d only on a check where the closest-body altitude exceeds 450.          *)
C5_NearMeans3d ==
    [][/\ (last' = "update" /\ (earthAltitude' < 300 \/ planetAltitude' < 300))
            => viewMode' = "3d"
       /\ (viewMode = "3d" /\ viewMode' = "2d")
            => (last' = "update" /\ closestBodyAltitude' > 450)]_vars

C5_Witness ==
    /\ last = "update"
    /\ viewMode = "3d"
    /\ planetAltitude < 300
    /\ earthAltitude > 450

(* C6: a state check that reads the phase launch moves it to space exactly  *)
(* when the altitude above Earth exceeds 200; the phase space is entered    *)
(* only that way.                                                           *)
C6_LaunchToSpace ==
    /\ (last = "update" /\ phaseLog[1] = "launch" /\ ~Happened("collision"))
          => ((Len(phaseLog) >= 2 /\ phaseLog[2] = "space") <=> earthAltitude > 200)
    /\ \A i \in 1..Len(phaseLog) :
          (i > 1 /\ phaseLog[i] = "space")
             => (i = 2 /\ phaseLog[1] = "launch" /\ last = "update"
                 /\ earthAltitude > 200)

C6_Witness ==
    /\ last = "update"
    /\ phaseLog = <<"launch", "space">>
    /\ gameState = "space"

(* C7: a state check that reads the phase space with the altitude to the    *)
(* nearest body, Earth included, below 200 moves the phase to landing.      *)
C7_SpaceToLandingNearestBody ==
    (/\ last = "update"
     /\ ~Happened("collision")
     /\ PhaseAtLandingRule = "space"
     /\ closestBodyAltitude < 200)
        => InLog("landing")

(* C8: the phase is always one of launch, space, landing, gameOver; a tick  *)
(* never moves it backward in that order and never out of gameOver; the     *)
(* only backward move is the respawn's reset to launch.                     *)
C8_PhaseOrder ==
    [][/\ gameState' \in Phases
       /\ last' \in TickKinds
            => /\ PhaseRank(gameState') >= PhaseRank(gameState)
               /\ (gameState = "gameOver" => gameState' = "gameOver")
       /\ PhaseRank(gameState') < PhaseRank(gameState)
            => (last' = "respawn" /\ gameState' = "launch")]_vars

C8_Witness ==
    /\ last = "update"
    /\ phaseLog = <<"space", "landing">>
    /\ gameState = "landing"

\* the body whose surface the craft is on
ContactBody == IF earthAltitude < ContactAltitude THEN Earth ELSE Planet

C10_SceneSteps ==
    [][sceneLast' = "update"
         => \/ /\ sceneState = "approaching" /\ sceneAltitude' < 800
               /\ sceneState' = "landing"
            \/ /\ sceneState = "landing" /\ sceneSpeed10' < 10 /\ sceneAltitude' < 40
               /\ sceneState' = "landed"
            \/ /\ sceneState = "landed" /\ sceneSpeed10' > 50
               /\ sceneState' = "launching"
            \/ /\ sceneState = "launching" /\ sceneAltitude' > 800
               /\ sceneState' = "approaching"
            \/ /\ sceneState' = sceneState
               /\ ~(sceneState = "approaching" /\ sceneAltitude' < 800)
               /\ ~(sceneState = "landing" /\ sceneSpeed10' < 10 /\ sceneAltitude' < 40)
               /\ ~(sceneState = "landed" /\ sceneSpeed10' > 50)
               /\ ~(sceneState = "launching" /\ sceneAltitude' > 800)]_vars

C10_Witness ==
    /\ sceneLast = "update"
    /\ sceneState = "launching"
    /\ sceneSpeed10 > 50
    /\ sceneAltitude < 40

(* C11: isRocketLeavingPlanet returns true exactly when the craft's         *)
(* altitude above the sub-scene's body is strictly greater than the exit    *)
(* threshold (1120), in every phase, and the call changes neither the phase *)
(* nor the craft.                                                           *)
C11_LeavingIsStrictAndPure ==
    [][sceneLast' = "exitQuery"
         => /\ sceneLeaving' <=> (sceneAltitude > 1120)
            /\ UNCHANGED <<sceneState, sceneAlt, sceneSpeed, sceneFuel,
                           sceneGear, sceneHasLanded>>]_vars

C11_Witness ==
    /\ sceneLast = "exitQuery"
    /\ sceneAltitude = 1120
    /\ ~sceneLeaving

(* C12: the transfer gives the sub-scene craft the source craft's fuel and  *)
(* a zero velocity and leaves the source craft as it was; for Earth the     *)
(* craft stands at altitude 2 with the gear deployed and the phase is       *)
(* landed, for any other body the craft is at the approach pose and the     *)
(* phase is approaching.                                                    *)
C12_Transfer ==
    [][sceneLast' = "transfer"
         => /\ sceneFuel' = fuel
            /\ sceneSpeed10' = 0
            /\ UNCHANGED gameVars
            /\ scenePlanet = Earth
                 => (sceneAltitude' = 2 /\ sceneGear' /\ sceneState' = "landed")
            /\ scenePlanet # Earth
                 => (sceneAlt' = ApproachLevel /\ sceneAltitude' > 800
                     /\ sceneState' = "approaching")]_vars

C12_Witness ==
    /\ sceneLast = "transfer"
    /\ scenePlanet # Earth
    /\ sceneState = "approaching"
    /\ sceneFuel = 0
    /\ getSpeed10 > 0
    /\ sceneSpeed10 = 0

(* ========================== properties: gravity ======================== *)
\* the sum of the vectors g[b] for the bodies of the sequence order
RECURSIVE VectorSum(_, _)
VectorSum(g, order) ==
    IF order = <<>> THEN ZeroVec
    ELSE add(g[order[Len(order)]], VectorSum(g, SubSeq(order, 1, Len(order) - 1)))

GravOrders ==
    { o \in [1..3 -> GravBodies] : \A b \in GravBodies : \E i \in 1..3 : o[i] = b }

(* C13: when the craft's position coincides with a body's position,        *)
(* applyGravity returns the zero vector: every component is the number 0,  *)
(* none is NaN.                                                             *)
C13_ZeroAtCoincidence ==
    \A b \in GravBodies :
        (gravLast = "update" /\ gravPos = GravPosition[b])
            => (~gravityOf[b].nan /\ gravityOf[b] = ZeroVec)

(* C14: the gravity handed to the integration step of a tick is the vector  *)
(* sum of applyGravity(craft, body) over Earth and every planet, each       *)
(* computed on its own, whatever the order the bodies are taken in.         *)
C14_Superposition ==
    gravLast = "update"
        => \A o \in GravOrders :
              totalGravity =
                 VectorSum([b \in GravBodies |->
                               applyGravity(gravPos, gravRocketMass,
                                            GravPosition[b], gravMass[b])], o)

C14_Witness ==
    /\ gravLast = "update"
    /\ ~totalGravity.nan
    /\ \A b \in GravBodies : gravityOf[b] # ZeroVec /\ gravityOf[b] # totalGravity
    /\ gravPlanets = <<"Mars", "Moon">>
    /\ totalGravity.y > 0

(* ================ properties: landing, failures and gear =============== *)
altitudeOf(b) == IF b = Earth THEN earthAltitude ELSE planetAltitude

(* C15: within one contact episode (altitude staying below the contact      *)
(* threshold) the landing outcome is acted on at most once: the tick that   *)
(* handles it marks the episode resolved, and a tick of a resolved episode  *)
(* runs no landing handler, leaves the score and the visited count alone    *)
(* and schedules no respawn.                                                *)
C15_OncePerContactEpisode ==
    [][last' \in TickKinds
         => \A b \in Bodies :
              /\ (altitudeOf(b)' < ContactAltitude
                    /\ (Happened("success")' \/ Happened("crash")'))
                   => hasLanded'[b]
              /\ (hasLanded[b] /\ altitudeOf(b) < ContactAltitude
                    /\ altitudeOf(b)' < ContactAltitude)
                   => /\ ~Happened("success")'
                      /\ ~Happened("crash")'
                      /\ score' = score
                      /\ planetsVisited' = planetsVisited
                      /\ respawnTimers' = respawnTimers]_vars

C15_Witness ==
    /\ last = "update"
    /\ events = <<>>
    /\ planetAltitude < ContactAltitude
    /\ hasLanded[Planet]
    /\ Planet \in visitedPlanets
    /\ respawnTimers = 1
    /\ planetsVisited = 1

(* C16: a tick that starts in a phase other than gameOver and reaches the   *)
(* state check with fuel 0, speed below 0.1 and altitude above Earth over   *)
(* 10 ends in gameOver with the out-of-fuel reason.                         *)
C16_OutOfFuelEndsGame ==
    (/\ last = "update"
     /\ phaseLog[1] # "gameOver"
     /\ fuel = 0
     /\ getSpeed10 < 1
     /\ earthAltitude > 10)
        => /\ gameState = "gameOver"
           /\ events # <<>>
           /\ events[Len(events)] = "outOfFuel"

C16_Witness ==
    /\ last = "update"
    /\ phaseLog[1] = "launch"
    /\ events = <<"outOfFuel">>
    /\ earthAltitude > 10
    /\ earthAltitude <= 200
    /\ gameState = "gameOver"

(* C17: a tick that reports a collision ends in gameOver with the collision *)
(* reason, whatever the phase, view mode, fuel or speed.                    *)
C17_CollisionEndsGame ==
    (last \in {"update", "updateThrew"} /\ Happened("collision"))
        => /\ gameState = "gameOver"
           /\ events[Len(events)] = "collision"

(* C18: a tick yields at most one event of success, crash, collision and    *)
(* outOfFuel: none handles a landing success and also enters gameOver, and  *)
(* none calls the game-over handler for two different reasons.              *)
C18_OneEventPerTick ==
    last \in TickKinds
        => /\ Len(events) <= 1
           /\ ~(Happened("success") /\ InLog("gameOver") /\ phaseLog[1] # "gameOver")
           /\ \A i, j \in 1..Len(events) :
                 (events[i] # "success" /\ events[j] # "success")
                    => events[i] = events[j]

C20_SceneWitness ==
    /\ sceneLast = "update"
    /\ ~sceneGear
    /\ sceneAltitude = 800
    /\ sceneState = "landing"

(* C19: in the sub-scene a crash or an out-of-fuel failure is terminal:     *)
(* once the failure is shown, a tick does not move the craft, does not      *)
(* change the phase and does not report a failure again.                    *)
C19_SceneFailureIsTerminal ==
    [][(sceneOverText # "none" /\ sceneLast' = "update")
         => /\ UNCHANGED <<sceneAlt, sceneSpeed, sceneFuel, sceneState>>
            /\ sceneEvents' = <<>>]_vars

(* ====================== properties: flight controls ==================== *)
SingleDirections ==
    { [NoMovement EXCEPT !.forward = TRUE], [NoMovement EXCEPT !.backward = TRUE],
      [NoMovement EXCEPT !.left = TRUE], [NoMovement EXCEPT !.right = TRUE] }

(* C21: in the system-wide scene, a tick whose speed at the RCS block is at *)
(* most 0.5 applies no RCS thrust, whatever the commands: the block leaves  *)
(* velocity and fuel as it found them.                                      *)
C21_RcsIgnoredBelowFloor ==
    (flLast = "update" /\ flScene = "game" /\ FlightSpeedLevels[flRcsSpeed] <= 5)
        => /\ ~flRcsApplied
           /\ flRcsSpeedAfter = flRcsSpeed
           /\ flFuel = flRcsFuel

C21_Witness ==
    /\ flLast = "update"
    /\ flScene = "game"
    /\ FlightSpeedLevels[flRcsSpeed] = 5
    /\ flMovement.forward /\ flMovement.left /\ flMovement.decelerate
    /\ ~flRcsApplied

C24_DeltaTimeCapped ==
    (flLast = "update" /\ flScene = "game")
        => (flDeltaTime <= 16 /\ flDeltaTime <= flHostDelta)

C24_Witness ==
    /\ flLast = "update"
    /\ flScene = "game"
    /\ flHostDelta = 250
    /\ flDeltaTime = 16

(* ========================= properties: tick order ====================== *)
\* the phase the launch and landing rules of the last tick arrived at
PhaseEvaluated ==
    IF Len(phaseLog) >= 3 /\ phaseLog[3] # "gameOver" THEN phaseLog[3]
    ELSE IF Len(phaseLog) >= 2 /\ phaseLog[2] # "gameOver" THEN phaseLog[2]
    ELSE phaseLog[1]

(* C25: within a tick the steps run in the order input, physics, phase and  *)
(* view-mode evaluation, camera, hazard check: the camera works from the    *)
(* phase and the view mode evaluated in the same tick, and the hazard check *)
(* comes after the camera, which therefore never sees its game over.        *)
C25_CameraAfterPhaseBeforeHazards ==
    last = "update"
        => /\ cameraSaw.viewMode = viewMode
           /\ cameraSaw.gameState = PhaseEvaluated
           /\ Happened("collision") => cameraSaw.gameState # "gameOver"

(* C26: a tick whose landing classification is crash ends in gameOver, and  *)
(* adds nothing to the score or the visited count and schedules no respawn; *)
(* a contact at a speed above the safe limit is never handled as a success. *)
C26_CrashIsNotSuccess ==
    [][last' = "update"
         => /\ Happened("crash")'
                => /\ gameState' = "gameOver"
                   /\ ~Happened("success")'
                   /\ score' = score
                   /\ planetsVisited' = planetsVisited
                   /\ visitedPlanets' = visitedPlanets
                   /\ respawnTimers' = respawnTimers
            /\ (closestBodyAltitude' < ContactAltitude
                  /\ getSpeed10' > MaxLandingSpeed10)
                => ~Happened("success")']_vars

C26_Witness ==
    /\ last = "update"
    /\ events = <<"crash">>
    /\ planetAltitude < ContactAltitude
    /\ getSpeed10 > MaxLandingSpeed10
    /\ gameState = "gameOver"
    /\ visitedPlanets = {}

(* ====================== properties: gravity, force ===================== *)
gravDistance(b) == distanceTo(gravPos, GravPosition[b])

\* u is the unit vector from the craft to body b times force / craft mass
IsPullOf(u, b, force) ==
    LET d == gravDistance(b)
    IN  /\ ~u.nan
        /\ u.x * d * gravRocketMass = (GravPosition[b][1] - gravPos[1]) * force
        /\ u.y * d * gravRocketMass = (GravPosition[b][2] - gravPos[2]) * force
        /\ u.z * d * gravRocketMass = (GravPosition[b][3] - gravPos[3]) * force

(* C27: at every distance calculateGravityForce returns the number          *)
(* G * m1 * m2 / d^2 with G = 0.1, and the acceleration applyGravity returns *)
(* has magnitude force / craft mass and points from the craft to the body.  *)
C27_ForceLaw ==
    gravLast = "update"
        => \A b \in GravBodies :
              /\ forceOf[b].isNumber
              /\ forceOf[b].v * gravDistance(b) * gravDistance(b)
                    = gravRocketMass * gravMass[b] * GravUnit
              /\ IsPullOf(gravityOf[b], b, forceOf[b].v)

(* C27 away from the bodies' centres: the same law for distances above 0.   *)
C27_ForceLawAwayFromCentres ==
    gravLast = "update"
        => \A b \in GravBodies :
              gravDistance(b) > 0
                 => /\ forceOf[b].isNumber
                    /\ forceOf[b].v * gravDistance(b) * gravDistance(b)
                          = gravRocketMass * gravMass[b] * GravUnit
                    /\ IsPullOf(gravityOf[b], b, forceOf[b].v)

(* ========================== properties: camera ========================= *)
\* the step changes the craft's orientation and nothing else the camera reads
OnlyOrientationChanges ==
    /\ camLast = "updateCamera"
    /\ camLast' = "updateCamera"
    /\ camQuaternion' # camQuaternion
    /\ UNCHANGED <<camViewMode, camPhase, camRocketPos, camSpeed10>>

SquaredLength(v) == v[1] * v[1] + v[2] * v[2] + v[3] * v[3]

(* C28: the desired camera position does not depend on the craft's          *)
(* orientation in 2d mode, where it is straight above the craft, nor in the *)
(* launch phase in 3d mode, where it is the craft's position plus a fixed   *)
(* offset; in the space and landing phases in 3d mode it is the craft's     *)
(* position plus the offset turned by the orientation.                      *)
C28_CameraAndOrientation ==
    /\ [][(OnlyOrientationChanges
             /\ (camViewMode = "2d" \/ camPhase = "launch"))
            => camDesired' = camDesired]_vars
    /\ [](camLast = "updateCamera"
            => /\ camViewMode = "2d"
                    => /\ ~camDesired.threw
                       /\ camDesired.p[1] = camRocketPos[1]
                       /\ camDesired.p[3] = camRocketPos[3]
                       /\ camDesired.p[2] > camRocketPos[2]
               /\ (camViewMode = "3d" /\ camPhase = "launch")
                    => camDesired
                         = [threw |-> FALSE,
                            p |-> <<camRocketPos[1] + 300, camRocketPos[2] + 200,
                                    camRocketPos[3] + 500>>]
               /\ (camViewMode = "3d" /\ camPhase = "landing")
                    => /\ ~camDesired.threw
                       /\ SquaredLength(<<camDesired.p[1] - camRocketPos[1],
                                          camDesired.p[2] - camRocketPos[2],
                                          camDesired.p[3] - camRocketPos[3]>>)
                            = 150 * 150 + 150 * 150
                       /\ camQuaternion = IdentityOrientation
                            => camDesired.p
                                 = <<camRocketPos[1], camRocketPos[2] + 150,
                                     camRocketPos[3] + 150>>
                       /\ camQuaternion = [yaw |-> 2, pitch |-> 0]
                            => camDesired.p
                                 = <<camRocketPos[1], camRocketPos[2] + 150,
                                     camRocketPos[3] - 150>>
               /\ (camViewMode = "3d" /\ camPhase = "space")
                    => /\ ~camDesired.threw
                       /\ camQuaternion = [yaw |-> 1, pitch |-> 0]
                            => /\ camDesired.p[1] > camRocketPos[1]
                               /\ camDesired.p[2] = camRocketPos[2] + 50
                               /\ camDesired.p[3] = camRocketPos[3])

C28_Witness ==
    /\ camLast = "updateCamera"
    /\ camViewMode = "3d"
    /\ camPhase = "launch"
    /\ camQuaternion = [yaw |-> 1, pitch |-> 1]
    /\ camRocketPos # <<0, 0, 0>>
    /\ ~camDesired.threw

(* ===================== properties: atmospheric drag ==================== *)
(* C29: drag is applied only below altitude 2400; the coefficient is 0 at   *)
(* 2400 and above; between 0 and 2400 it is strictly larger at the lower of *)
(* two altitudes and never above maxDrag; and the drag term points against  *)
(* the velocity.                                                            *)
C29_DragLaw ==
    /\ [](dragLast # "init"
            => /\ dragAltitude >= 2400 => dragCoefficient = 0
               /\ (0 <= dragAltitude /\ dragAltitude < 2400)
                    => /\ dragCoefficient > 0
                       /\ dragCoefficient <= maxDragScaled
               /\ egResult.dragAsked => egAltitude < 2400
               /\ egResult.dragTerm # <<0, 0>> => egAltitude < 2400
               /\ egResult.dragTerm[1] * egVelocity[1] <= 0
               /\ egResult.dragTerm[2] * egVelocity[2] <= 0
               /\ egResult.dragTerm[1] * egVelocity[2]
                    = egResult.dragTerm[2] * egVelocity[1]
               /\ (egResult.dragAsked /\ egVelocity # <<0, 0>>)
                    => egResult.dragTerm # <<0, 0>>)
    /\ [][(/\ dragLast = "calculateAtmosphericDrag"
           /\ dragLast' = "calculateAtmosphericDrag"
           /\ 0 <= dragAltitude
           /\ dragAltitude < dragAltitude'
           /\ dragAltitude' < 2400)
            => dragCoefficient > dragCoefficient']_vars
    /\ [][(/\ egResult.dragAsked
           /\ egResult'.dragAsked
           /\ 0 <= egAltitude
           /\ egAltitude < egAltitude')
            => egResult.drag > egResult'.drag]_vars

C29_Witness ==
    /\ dragLast = "applyEnhancedGravity"
    /\ egResult.dragAsked
    /\ egAltitude = 2398
    /\ egVelocity = <<-3, 4>>
    /\ egResult.dragTerm = <<3, -4>>
    /\ dragAltitude = 2
    /\ dragCoefficient < maxDragScaled

(* ====================== properties: auto-orientation =================== *)
(* C30: auto-orientation turns the craft on a tick only when the altitude   *)
(* to the chosen body is below the orientation threshold and the speed is   *)
(* below the stability threshold (20 and 15 in the system-wide scene, 240   *)
(* and 10 in the sub-scene), and otherwise leaves the orientation alone; in *)
(* the system-wide scene the chosen body has the smallest altitude of those *)
(* below the threshold.                                                     *)
C30_AutoOrientation ==
    /\ orResult.lookAt
         <=> /\ \E b \in DOMAIN orAltitudes : orAltitudes[b] < 20
             /\ orSpeed10 < 150
    /\ orResult.lookAt
         => /\ orResult.body \in DOMAIN orAltitudes
            /\ orAltitudes[orResult.body] < 20
            /\ \A b \in DOMAIN orAltitudes :
                  orAltitudes[orResult.body] <= orAltitudes[b]
    /\ orSceneSlerp <=> (orSceneAltitude < 240 /\ orSceneSpeed10 < 100)

C30_Witness ==
    /\ orLast = "PlanetScene"
    /\ orSceneSlerp
    /\ orSceneAltitude = 239
    /\ orSceneSpeed10 = 99
    /\ orResult.lookAt
    /\ orResult.body = "Mars"
    /\ orAltitudes["Earth"] = 20
    /\ orAltitudes["Moon"] = 19
    /\ orAltitudes["Mars"] = 5
    /\ orSpeed10 = 149

(* ===================== properties: sub-scene phases ==================== *)
(* C31 as stated: the sub-scene phase becomes launching only out of landed  *)
(* with the speed above 5, and by no other event.                           *)
C31_LaunchingOnlyByLiftoff ==
    (sceneState = "launching" /\ scenePhaseBefore # "launching")
        => /\ sceneLast = "update"
           /\ scenePhaseBefore = "landed"
           /\ sceneSpeed10 > 50

(* C31 amended: the sub-scene phase becomes launching either in a tick, out *)
(* of landed with the speed above 5, or when the deferred respawn of a      *)
(* successful landing fires, which sets it whatever the phase and the speed *)
(* were; nothing else sets it.                                              *)
C31_LaunchingByLiftoffOrRespawn ==
    /\ (sceneState = "launching" /\ scenePhaseBefore # "launching")
          => \/ sceneLast = "respawn"
             \/ /\ sceneLast = "update"
                /\ scenePhaseBefore = "landed"
                /\ sceneSpeed10 > 50
    /\ sceneLast = "respawn" => sceneState = "launching"

C31_Witness ==
    /\ sceneLast = "update"
    /\ sceneState = "launching"
    /\ scenePhaseBefore = "landed"
    /\ sceneSpeed10 > 50

C31_RespawnWitness ==
    /\ sceneLast = "respawn"
    /\ sceneState = "launching"
    /\ scenePhaseBefore = "landing"
    /\ sceneSpeed10 = 0

(* ================= properties: system-wide scene, phases =============== *)
\* the tick handled a crash
CrashHandled ==
    /\ last = "update"
    /\ \E i \in 1..Len(events) : events[i] = "crash"

\* the phase at the moment the tick's first crash was handed to onGameOver
phaseAtCrash ==
    IF \E i \in 1..Len(events) :
          /\ events[i] = "crash"
          /\ \E j \in 1..(i - 1) : events[j] \in {"collision", "crash"}
    THEN "gameOver"
    ELSE phaseLog[Len(phaseLog) - 1]

(* C32: on every tick of the system-wide scene that handles a crash, the    *)
(* phase just before the handling is landing, never launch or space.        *)
C32_CrashOnlyFromLanding == CrashHandled => phaseAtCrash = "landing"

\* a crash handled in the landing phase does happen
C32_CrashFromLanding == CrashHandled /\ phaseAtCrash = "landing"

\* the body the craft is in contact with
bodyInContact ==
    IF earthAltitude < ContactAltitude THEN Earth ELSE Planet

\* the tick reported exactly one successful landing
OneSuccess ==
    /\ last = "update"
    /\ Len(SelectSeq(events, LAMBDA e : e = "success")) = 1

(* C33: planetsVisited is always the number of bodies in visitedPlanets;    *)
(* both only grow and the score never decreases; a successful landing on a  *)
(* body already in visitedPlanets changes none of the three.                *)
C33_VisitedCountAndScore ==
    /\ [](planetsVisited = Cardinality(visitedPlanets))
    /\ [][/\ planetsVisited' >= planetsVisited
          /\ visitedPlanets \subseteq visitedPlanets'
          /\ score' >= score
          /\ (OneSuccess' /\ bodyInContact' \in visitedPlanets)
               => UNCHANGED <<score, planetsVisited, visitedPlanets>>]_vars

\* a successful landing on Earth that schedules no respawn: Earth had been
\* visited before
C33_Witness ==
    /\ OneSuccess
    /\ bodyInContact = Earth
    /\ visitedPlanets = Bodies
    /\ planetsVisited = 2
    /\ respawnTimers = 0
    /\ score > 0

(* ===================== properties: camera smoothing ==================== *)
\* w - v, for a vector v held times scale
OffsetTo(v, scale, w) ==
    <<scale * w[1] - v[1], scale * w[2] - v[2], scale * w[3] - v[3]>>

\* v' is v moved by alpha100 hundredths of the way to w
MovedToward(before, after, scale, w, alpha100) ==
    \A i \in 1..3 :
        after[i] - 100 * before[i]
            = alpha100 * OffsetTo(before, scale, w)[i]

(* C34: every camera update leaves the smoothed position and the smoothed   *)
(* target at the previous value moved by the fraction cameraLerpSpeed       *)
(* toward the desired value, never at the desired value itself unless they  *)
(* were there; and after every view-mode evaluation cameraLerpSpeed is 0.08 *)
(* in 3d and 0.05 in 2d.                                                    *)
C34_CameraIsSmoothed ==
    /\ [](lpLast = "update"
            => lpLerpSpeed = IF lpViewMode = "3d" THEN 8 ELSE 5)
    /\ [][lpLast' = "update"
            => /\ lpDesired'.alpha100 = lpLerpSpeed
               /\ MovedToward(lpPosition, lpPosition', Pow100(lpUpdates),
                              lpDesired'.position, lpLerpSpeed)
               /\ MovedToward(lpTarget, lpTarget', Pow100(lpUpdates),
                              lpDesired'.target, lpLerpSpeed)
               /\ OffsetTo(lpPosition, Pow100(lpUpdates), lpDesired'.position)
                     # <<0, 0, 0>>
                    => OffsetTo(lpPosition', Pow100(lpUpdates'),
                                lpDesired'.position) # <<0, 0, 0>>]_vars
    /\ [][lpLast' # "update" => UNCHANGED <<lpPosition, lpTarget>>]_vars

C34_Witness ==
    /\ lpLast = "update"
    /\ lpUpdates = 2
    /\ lpViewMode = "2d"
    /\ lpLerpSpeed = 5
    /\ lpDesired.alpha100 = 8
    /\ lpDesired.position = <<400, 250, 300>>
    /\ lpPosition # <<4000000, 2500000, 3000000>>

(* C35: a tick of the system-wide scene advances the phase by at most one   *)
(* step: a tick that starts in launch ends in launch, space or gameOver,    *)
(* never in landing.                                                        *)
C35_OnePhaseStepPerTick ==
    (last = "update" /\ phaseLog[1] = "launch")
        => gameState \in {"launch", "space", "gameOver"}

\* the state is the end of a tick
EndOfTick == last \in {"update", "updateThrew", "updateReturned"}

(* C36: at the end of every tick of the system-wide scene, the phase launch *)
(* comes with the view mode 3d, also in the first tick after a deferred     *)
(* respawn has set the phase to launch while the view mode was 2d.          *)
C36_LaunchIsShownIn3d ==
    /\ [](EndOfTick /\ gameState = "launch" => viewMode = "3d")
    /\ [][(last = "respawn" /\ viewMode = "2d" /\ EndOfTick')
            => (gameState' = "launch" => viewMode' = "3d")]_vars

\* the tick began in launch with the view mode 2d, as a respawn leaves it,
\* and ended in launch
C36_Witness ==
    /\ last = "update"
    /\ cameraSaw = [viewMode |-> "2d", gameState |-> "launch"]
    /\ gameState = "launch"
    /\ viewMode = "3d"

(* ======================= properties: transfer pose ===================== *)
(* C37: right after a transfer to a body other than Earth, whatever the     *)
(* body's radius, the craft's altitude is strictly between the landing      *)
(* threshold 800 and the exit threshold 1120: isRocketLeavingPlanet answers *)
(* false and a tick without movement keeps the phase approaching.           *)
C37_ApproachPoseBetweenThresholds ==
    /\ []((poLast = "transfer" /\ poName # "Earth")
            => /\ poAltitude > 800
               /\ poAltitude < 1120
               /\ poState = "approaching")
    /\ [][(poLast = "transfer" /\ poName # "Earth")
            => /\ poLast' = "exitQuery" => ~poLeaving'
               /\ poLast' = "update" => poState' = "approaching"]_vars

C37_Witness ==
    /\ poLast = "update"
    /\ poName = "Mars"
    /\ poRadius = 9199
    /\ poAltitude = 802
    /\ poState = "approaching"
    /\ ~poLeaving

(* ======================= properties: enhanced gravity ================== *)
egDistance == egRadius + egAltitude

\* applyEnhancedGravity returns the zero vector exactly beyond 6 radii, and
\* from the surface outwards the multiplier lies between 1 and 3.5
C38_RangeAndBounds ==
    dragLast = "applyEnhancedGravity"
        => /\ egResult.inRange <=> egDistance <= 6 * egRadius
           /\ ~egResult.inRange
                => (egResult.dragTerm = <<0, 0>> /\ egResult.multiplier = 0)
           /\ (egResult.inRange /\ egAltitude >= 0)
                => /\ egResult.multiplier >= 20 * egRadius
                   /\ 2 * egResult.multiplier <= 7 * 20 * egRadius

(* C38: applyEnhancedGravity returns the zero vector whenever the distance  *)
(* to the centre exceeds 6 radii; from the surface up to 6 radii the        *)
(* gravity multiplier is at least 1, at most 3.5, and never increases as    *)
(* the distance grows.                                                      *)
C38_EnhancedGravityLaw ==
    /\ [](dragLast = "applyEnhancedGravity"
            => /\ egDistance > 6 * egRadius
                    => (~egResult.inRange /\ egResult.dragTerm = <<0, 0>>)
               /\ (egResult.inRange /\ egAltitude >= 0)
                    => /\ egResult.multiplier >= 20 * egRadius
                       /\ 2 * egResult.multiplier <= 7 * 20 * egRadius)
    /\ [][(/\ dragLast = "applyEnhancedGravity"
           /\ dragLast' = "applyEnhancedGravity"
           /\ egRadius' = egRadius
           /\ egAltitude >= 0
           /\ egAltitude < egAltitude'
           /\ egResult'.inRange)
            => egResult.multiplier >= egResult'.multiplier]_vars

====
